---- MODULE Spec2Model ----
(***************************************************************************)
(* Model of src/src/fmt.rs: the line indenter `Indented` and the two chain *)
(* renderers RootCauseFirst / RootCauseLast of the error report formatter. *)
(*                                                                         *)
(* Text is a sequence of one-character strings.  A sink (the `inner` of an *)
(* indenter, the Formatter `f` of a renderer) is the log of the writes     *)
(* made to it, each with the text and whether the sink accepted it; the    *)
(* sink's content is the concatenation of the accepted texts.  One sink    *)
(* write is one write_fmt / write_char / write! of the source.             *)
(***************************************************************************)
EXTENDS Integers, Sequences, FiniteSets, TLC

\* ------------------------------------------------------------------ bounds
MaxTotal == 4
MaxFrags == 2
MaxChain == 2
MaxChainText == 3
MaxFailTotal == 3
MaxFailChain == 2
MaxFailText == 2
MaxKeep == 1

\* ------------------------------------------------------------- characters
NL == "\n"
SP == " "
Char == {"a", "b", SP, NL}

IsWhitespace(c) == c \in {SP, NL}

RECURSIVE TrimStart(_)
TrimStart(s) ==
    IF s = <<>> THEN <<>>
    ELSE IF IsWhitespace(Head(s)) THEN TrimStart(Tail(s)) ELSE s

RECURSIVE TrimEnd(_)
TrimEnd(s) ==
    IF s = <<>> THEN <<>>
    ELSE IF IsWhitespace(s[Len(s)]) THEN TrimEnd(SubSeq(s, 1, Len(s) - 1)) ELSE s

\* variant: trim_start() in place of trim()
Trim_StartOnly(s) == TrimStart(s)

Trim(s) == TrimEnd(TrimStart(s))

\* s.split('\n'): the pieces between newlines, always at least one piece
RECURSIVE SplitAcc(_, _, _)
SplitAcc(s, cur, acc) ==
    IF s = <<>> THEN Append(acc, cur)
    ELSE IF Head(s) = NL THEN SplitAcc(Tail(s), <<>>, Append(acc, cur))
    ELSE SplitAcc(Tail(s), Append(cur, Head(s)), acc)

Split(s) == SplitAcc(s, <<>>, <<>>)

Spaces(k) == [i \in 1..k |-> SP]

DigitChar(d) == <<"0", "1", "2", "3", "4", "5", "6", "7", "8", "9">>[d + 1]

RECURSIVE Digits(_)
Digits(n) == IF n < 10 THEN <<DigitChar(n)>> ELSE Append(Digits(n \div 10), DigitChar(n % 10))

\* format_args!("{: >5}: ", ind): right-justified in 5, never truncated
LabelWidth == 5
\* variant: the numeral not padded to the field
LabelText_NoPad(n) == Digits(n) \o <<":", SP>>

LabelText(n) ==
    LET d == Digits(n)
        pad == IF Len(d) < LabelWidth THEN LabelWidth - Len(d) ELSE 0
    IN  Spaces(pad) \o d \o <<":", SP>>

\* variant: a continuation indent as wide as the label field only
NumberedIndent_Narrow == Spaces(5)
NumberedIndent == Spaces(7)
\* variant: the numbered indent for an absent label too
PlainIndent_Numbered == Spaces(7)
PlainIndent == Spaces(4)

\* ------------------------------------------------------------------ sinks
\* A sink: the log of its writes, the index of the write it refuses (0: it
\* refuses none) and how many characters of the refused text it has taken
\* before refusing.  acc is the part of the text the sink holds.
NewSink(failAt, keep) == [log |-> <<>>, failAt |-> failAt, keep |-> keep]

Min(a, b) == IF a < b THEN a ELSE b

RECURSIVE OutOf(_)
OutOf(log) ==
    IF log = <<>> THEN <<>>
    ELSE OutOf(SubSeq(log, 1, Len(log) - 1)) \o log[Len(log)].acc

Out(sink) == OutOf(sink.log)

\* one write to the sink: [sink, ok]
SinkWrite(sink, s) ==
    LET ok == (Len(sink.log) + 1 # sink.failAt)
        acc == IF ok THEN s ELSE SubSeq(s, 1, Min(sink.keep, Len(s)))
    IN  [sink |-> [sink EXCEPT !.log = Append(@, [s |-> s, ok |-> ok, acc |-> acc])],
         ok |-> ok]

\* ------------------------------------------------- Indented (the indenter)
\* Option<usize>: <<>> is None, <<n>> is Some(n)
None == <<>>
Some(x) == <<x>>

numbered(inner_, n) == [inner |-> inner_, ind |-> Some(n), started |-> FALSE]

\* the struct literal of the tests, with any label
Indented(inner_, ind_) == [inner |-> inner_, ind |-> ind_, started |-> FALSE]

\* self.inner.write_*(s)? followed by the rest of the loop body
InnerWrite(self, s) ==
    LET w == SinkWrite(self.inner, s)
    IN  [self |-> [self EXCEPT !.inner = w.sink], ok |-> w.ok]

\* variant: the result of the write before not looked at
AndThen_NoCheck(r, s) == InnerWrite(r.self, s)

\* `r?; self.inner.write_*(s)`: the write happens only if r did not fail
AndThen(r, s) == IF r.ok THEN InnerWrite(r.self, s) ELSE r

\* variant: a blank first line is labelled like any other
LineBody_LabelBlank(self, i, line) ==
    IF ~self.started THEN
        LET s1 == [self EXCEPT !.started = TRUE]
            label == IF s1.ind # None THEN LabelText(s1.ind[1]) ELSE PlainIndent
        IN  AndThen(InnerWrite(s1, label), Trim(line))
    ELSE IF i > 0 THEN
        LET indent == IF self.ind # None THEN NumberedIndent ELSE PlainIndent
        IN  AndThen(AndThen(InnerWrite(self, <<NL>>), indent), line)
    ELSE InnerWrite(self, line)

\* variant: the start not recorded
LineBody_NeverStarted(self, i, line) ==
    IF ~self.started THEN
        LET t == Trim(line) IN
        IF t = <<>> THEN [self |-> self, ok |-> TRUE]
        ELSE LET label == IF self.ind # None THEN LabelText(self.ind[1]) ELSE PlainIndent
             IN  AndThen(InnerWrite(self, label), t)
    ELSE IF i > 0 THEN
        LET indent == IF self.ind # None THEN NumberedIndent ELSE PlainIndent
        IN  AndThen(AndThen(InnerWrite(self, <<NL>>), indent), line)
    ELSE InnerWrite(self, line)

\* variant: after the start every line is put on a new line
LineBody_IndentAlways(self, i, line) ==
    IF ~self.started THEN
        LET t == Trim(line) IN
        IF t = <<>> THEN [self |-> self, ok |-> TRUE]
        ELSE LET s1 == [self EXCEPT !.started = TRUE]
                 label == IF s1.ind # None THEN LabelText(s1.ind[1]) ELSE PlainIndent
             IN  AndThen(InnerWrite(s1, label), t)
    ELSE LET indent == IF self.ind # None THEN NumberedIndent ELSE PlainIndent
         IN  AndThen(AndThen(InnerWrite(self, <<NL>>), indent), line)

\* one iteration of the loop of write_str, for line number i (0-based) of s
LineBody(self, i, line) ==
    IF ~self.started THEN
        LET t == Trim(line) IN
        IF t = <<>> THEN [self |-> self, ok |-> TRUE]
        ELSE LET s1 == [self EXCEPT !.started = TRUE]
                 label == IF s1.ind # None THEN LabelText(s1.ind[1]) ELSE PlainIndent
             IN  AndThen(InnerWrite(s1, label), t)
    ELSE IF i > 0 THEN
        LET indent == IF self.ind # None THEN NumberedIndent ELSE PlainIndent
        IN  AndThen(AndThen(InnerWrite(self, <<NL>>), indent), line)
    ELSE InnerWrite(self, line)

RECURSIVE WriteLines(_, _, _)
WriteLines(self, lines, k) ==
    IF k > Len(lines) THEN [self |-> self, ok |-> TRUE]
    ELSE LET r == LineBody(self, k - 1, lines[k])
         IN  IF r.ok THEN WriteLines(r.self, lines, k + 1) ELSE r

write_str(self, s) == WriteLines(self, Split(s), 1)

RECURSIVE TotalLen(_)
TotalLen(ss) == IF ss = <<>> THEN 0 ELSE Len(Head(ss)) + TotalLen(Tail(ss))

RECURSIVE Concat(_)
Concat(ss) == IF ss = <<>> THEN <<>> ELSE Head(ss) \o Concat(Tail(ss))

\* ------------------------------------------------------- chain renderers
\* A chain is the sequence of its entries, outermost first; an entry is the
\* sequence of the fragments its Display writes, in order.
to_string(entry) == Concat(entry)

\* variant: the chain not reversed
Reverse_Not(s) == s
Reverse(s) == [i \in 1..Len(s) |-> s[Len(s) + 1 - i]]

\* `r?; write!(f, s)` on the Formatter
FWrite(r, s) ==
    IF r.ok THEN LET w == SinkWrite(r.f, s) IN [f |-> w.sink, ok |-> w.ok]
    ELSE r

\* write!(indented, "{}", x): one write_str per fragment x's Display writes
RECURSIVE WriteFrags(_, _, _)
WriteFrags(self, fs, k) ==
    IF k > Len(fs) THEN [self |-> self, ok |-> TRUE]
    ELSE LET r == write_str(self, fs[k])
         IN  IF r.ok THEN WriteFrags(r.self, fs, k + 1) ELSE r

\* variant: labels counted from 1
FIndented_OneBased(r, n, fs) ==
    IF r.ok THEN LET w == WriteFrags(numbered(r.f, n + 1), fs, 1)
                 IN  [f |-> w.self.inner, ok |-> w.ok]
    ELSE r

\* `r?; write!(Indented::numbered(f, n), "{}", x)`
FIndented(r, n, fs) ==
    IF r.ok THEN LET w == WriteFrags(numbered(r.f, n), fs, 1)
                 IN  [f |-> w.self.inner, ok |-> w.ok]
    ELSE r

\* variant: one newline before the header
ContextHeader_OneNewline == <<NL, "C", "o", "n", "t", "e", "x", "t", ":", NL>>

\* if let Some(span_context) = span_backtrace { "\n\nContext:\n"; "{}" }
ContextHeader == <<NL, NL, "C", "o", "n", "t", "e", "x", "t", ":", NL>>

context_section(r, span_backtrace_) ==
    IF span_backtrace_ # None
    THEN FWrite(FWrite(r, ContextHeader), span_backtrace_[1])
    ELSE r

StackBacktrace ==
    <<"s", "t", "a", "c", "k", SP, "b", "a", "c", "k", "t", "r", "a", "c", "e", ":">>
StackB == <<"S", "t", "a", "c", "k", SP, "B">>

starts_with(s, p) == Len(p) <= Len(s) /\ SubSeq(s, 1, Len(p)) = p

\* variant: the trailing whitespace kept
backtrace_text_NoTrim(text) ==
    IF starts_with(text, StackBacktrace)
    THEN StackB \o SubSeq(text, 8, Len(text))
    ELSE text

\* the text of a captured backtrace as it is written
backtrace_text(text) ==
    LET b == IF starts_with(text, StackBacktrace)
             THEN StackB \o SubSeq(text, 8, Len(text))
             ELSE text
    IN  SubSeq(b, 1, Len(TrimEnd(b)))

\* variant: the separator written whatever the status
backtrace_section_Separator(r, backtrace_) ==
    IF backtrace_.status = "Captured"
    THEN FWrite(r, <<NL, NL>> \o backtrace_text(backtrace_.text))
    ELSE FWrite(r, <<NL, NL>>)

backtrace_section(r, backtrace_) ==
    IF backtrace_.status = "Captured"
    THEN FWrite(r, <<NL, NL>> \o backtrace_text(backtrace_.text))
    ELSE r

\* the loop of RootCauseFirst over errors[k..], labels from k - 1
RECURSIVE FirstEntries(_, _, _)
FirstEntries(r, errors, k) ==
    IF k > Len(errors) \/ ~r.ok THEN r
    ELSE FirstEntries(
            FIndented(FWrite(r, <<NL>>), k - 1, <<Trim(to_string(errors[k]))>>),
            errors, k + 1)

\* variant: the stack trace written before the context
RootCauseFirst_fmt_error_BacktraceFirst(error_, backtrace_, span_backtrace_, f_) ==
    LET errors == Reverse(error_)
        r1 == FirstEntries([f |-> f_, ok |-> TRUE], errors, 1)
    IN  context_section(backtrace_section(r1, backtrace_), span_backtrace_)

RootCauseFirst_fmt_error(error_, backtrace_, span_backtrace_, f_) ==
    LET errors == Reverse(error_)
        r1 == FirstEntries([f |-> f_, ok |-> TRUE], errors, 1)
    IN  backtrace_section(context_section(r1, span_backtrace_), backtrace_)

\* variant: the newline before each entry, as in RootCauseFirst
RECURSIVE LastEntries_NewlineBefore(_, _, _)
LastEntries_NewlineBefore(r, errors, k) ==
    IF k > Len(errors) \/ ~r.ok THEN r
    ELSE LastEntries_NewlineBefore(
            FIndented(FWrite(r, <<NL>>), k - 1, errors[k]), errors, k + 1)

\* the loop of RootCauseLast over errors[k..], labels from k - 1
RECURSIVE LastEntries(_, _, _)
LastEntries(r, errors, k) ==
    IF k > Len(errors) \/ ~r.ok THEN r
    ELSE LastEntries(FWrite(FIndented(r, k - 1, errors[k]), <<NL>>), errors, k + 1)

RootCauseLast_fmt_error(error_, backtrace_, span_backtrace_, f_) ==
    LET r0 == FWrite([f |-> f_, ok |-> TRUE], <<NL>>)
        r1 == LastEntries(r0, error_, 1)
    IN  backtrace_section(context_section(r1, span_backtrace_), backtrace_)

\* ----------------------------------------------- ErrorImpl entry points
\* a Formatter with its alternate flag ({:#}), over an empty sink
NewFormatter(alt) == [log |-> <<>>, failAt |-> 0, keep |-> 0, alternate |-> alt]

\* for cause in self.chain().skip(1) { write!(f, ": {}", cause)?; }, from k
RECURSIVE Causes(_, _, _)
Causes(r, chain, k) ==
    IF k > Len(chain) \/ ~r.ok THEN r
    ELSE Causes(FWrite(r, <<":", SP>> \o to_string(chain[k])), chain, k + 1)

\* variant: the causes not skipping the error itself
display_NoSkip(error_, f_) ==
    LET r0 == FWrite([f |-> f_, ok |-> TRUE], to_string(error_[1]))
    IN  IF f_.alternate THEN Causes(r0, error_, 1) ELSE r0

display(error_, f_) ==
    LET r0 == FWrite([f |-> f_, ok |-> TRUE], to_string(error_[1]))
    IN  IF f_.alternate THEN Causes(r0, error_, 2) ELSE r0

\* variant: the normal mode rendered root cause last
debug_RootCauseLast(error_, backtrace_, span_backtrace_, dbg, f_) ==
    IF f_.alternate
    THEN FWrite([f |-> f_, ok |-> TRUE], dbg)
    ELSE RootCauseLast_fmt_error(error_, backtrace_, span_backtrace_, f_)

\* dbg is what Debug::fmt(error, f) writes for the error
debug(error_, backtrace_, span_backtrace_, dbg, f_) ==
    IF f_.alternate
    THEN FWrite([f |-> f_, ok |-> TRUE], dbg)
    ELSE RootCauseFirst_fmt_error(error_, backtrace_, span_backtrace_, f_)

\* ------------------------------------------------------------ input sets
RECURSIVE StrsOfLen(_, _)
StrsOfLen(A, n) ==
    IF n = 0 THEN {<<>>}
    ELSE {Append(s, c) : s \in StrsOfLen(A, n - 1), c \in A}

Strs(A, n) == UNION {StrsOfLen(A, k) : k \in 0..n}

\* labels of the tests (2, 12), the first, the widest that fits and the
\* narrowest that does not
Labels == {0, 2, 12, 99999, 100000}

\* chains of n entries whose texts have at most budget characters in all
EntryChar == {"a", SP, NL}

RECURSIVE ChainsOf(_, _)
ChainsOf(n, budget) ==
    IF n = 0 THEN {<<>>}
    ELSE UNION {{<<s>> \o c : c \in ChainsOf(n - 1, budget - Len(s))} :
                    s \in Strs(EntryChar, budget)}

Chains == UNION {ChainsOf(n, MaxChainText) : n \in 1..MaxChain}

\* the ways a Display can write the text s: in one piece or in several
RECURSIVE Pieces(_)
Pieces(s) ==
    {<<s>>} \cup
    UNION {{<<SubSeq(s, 1, c)>> \o rest : rest \in Pieces(SubSeq(s, c + 1, Len(s)))} :
                c \in 1..(Len(s) - 1)}

RECURSIVE Fragmentations(_)
Fragmentations(chain) ==
    IF chain = <<>> THEN {<<>>}
    ELSE UNION {{<<e>> \o rest : rest \in Fragmentations(Tail(chain))} :
                    e \in Pieces(Head(chain))}

Whole(chain) == [i \in 1..Len(chain) |-> <<chain[i]>>]

\* the optional sections: no span trace or one with some rendered text; a
\* backtrace with a status and a rendered text
SpanTexts == {<<SP, "a", NL>>}
SpanOptions == {None} \cup {Some(x) : x \in SpanTexts}

BacktraceTexts ==
    { StackBacktrace \o <<NL, SP, "a", SP, NL>>,
      SubSeq(StackBacktrace, 1, 15) \o <<NL>>,
      <<SP, "a", SP>> }
BacktraceOptions ==
    {[status |-> "Captured", text |-> x] : x \in BacktraceTexts} \cup
    {[status |-> st, text |-> StackBacktrace \o <<NL, SP, "a", SP, NL>>] :
        st \in {"Disabled", "Unsupported"}}

\* ---------------------------------------------------------------- state
VARIABLES
    inner, ind, started,   \* the fields of one Indented
    frags,                 \* the fragments written to it so far, in order
    prev,                  \* started and the log length before the last write_str
    res,                   \* result of the last write_str: "Ok" or "Err"
    error,                 \* the chain of the error, outermost first, as texts
    backtrace,             \* its backtrace: status and rendered text
    span_backtrace,        \* its span trace: None or Some(rendered text)
    f,                     \* the Formatter of the last render
    op,                    \* the last render: "none", "First", "Last", "display", "debug"
    shown,                 \* the fragments each entry's Display wrote in it
    ret                    \* its result: "Ok" or "Err"

ivars == <<inner, ind, started, frags, prev, res>>
rvars == <<error, backtrace, span_backtrace, f, op, shown, ret>>
vars == <<inner, ind, started, frags, prev, res,
          error, backtrace, span_backtrace, f, op, shown, ret>>

Self == [inner |-> inner, ind |-> ind, started |-> started]

NoIndented ==
    /\ ind = None
    /\ inner = NewSink(0, 0)
    /\ started = FALSE
    /\ frags = <<>>
    /\ prev = [started |-> FALSE, len |-> 0]
    /\ res = "Ok"

NoError ==
    /\ error = <<>>
    /\ backtrace = [status |-> "Unsupported", text |-> <<>>]
    /\ span_backtrace = None
    /\ f = NewSink(0, 0)
    /\ op = "none"
    /\ shown = <<>>
    /\ ret = "Ok"

\* a fresh indenter over an empty sink that accepts every write
IndentInit ==
    /\ ind \in {None} \cup {Some(n) : n \in Labels}
    /\ inner = NewSink(0, 0)
    /\ started = FALSE
    /\ frags = <<>>
    /\ prev = [started |-> FALSE, len |-> 0]
    /\ res = "Ok"
    /\ NoError

\* the sink armed to refuse its k-th write from now (k = 0: none), keeping
\* keep characters of the refused text
Armed(sink, k, keep) ==
    [sink EXCEPT !.failAt = IF k = 0 THEN 0 ELSE Len(sink.log) + k, !.keep = keep]

\* one call of write_str on the indenter, its sink refusing the k-th write
WriteStr(s, k, keep) ==
    /\ error = <<>>
    /\ LET r == write_str([Self EXCEPT !.inner = Armed(inner, k, keep)], s) IN
        /\ inner' = r.self.inner
        /\ ind' = r.self.ind
        /\ started' = r.self.started
        /\ res' = IF r.ok THEN "Ok" ELSE "Err"
    /\ frags' = Append(frags, s)
    /\ prev' = [started |-> started, len |-> Len(inner.log)]
    /\ UNCHANGED rvars

IndentNext ==
    /\ Len(frags) < MaxFrags
    /\ \E s \in Strs(Char, MaxTotal - TotalLen(frags)) : WriteStr(s, 0, 0)

SpecIndent == IndentInit /\ [][IndentNext]_vars

\* an error with its chain and optional sections, not rendered yet
RenderInit ==
    /\ error \in Chains
    /\ backtrace \in BacktraceOptions
    /\ span_backtrace \in SpanOptions
    /\ f = NewSink(0, 0)
    /\ op = "none"
    /\ shown = <<>>
    /\ ret = "Ok"
    /\ NoIndented

\* RootCauseFirst::fmt_error into a Formatter f_; an error is rendered once
FmtErrorFirst(f_) ==
    /\ error # <<>>
    /\ op = "none"
    /\ LET r == RootCauseFirst_fmt_error(Whole(error), backtrace, span_backtrace, f_) IN
        /\ f' = r.f
        /\ ret' = IF r.ok THEN "Ok" ELSE "Err"
    /\ op' = "First"
    /\ shown' = Whole(error)
    /\ UNCHANGED <<error, backtrace, span_backtrace>>
    /\ UNCHANGED ivars

\* RootCauseLast::fmt_error into a Formatter f_, the entries' Display
\* writing the fragments es
FmtErrorLast(f_, es) ==
    /\ error # <<>>
    /\ op = "none"
    /\ LET r == RootCauseLast_fmt_error(es, backtrace, span_backtrace, f_) IN
        /\ f' = r.f
        /\ ret' = IF r.ok THEN "Ok" ELSE "Err"
    /\ op' = "Last"
    /\ shown' = es
    /\ UNCHANGED <<error, backtrace, span_backtrace>>
    /\ UNCHANGED ivars

RenderNext ==
    \/ FmtErrorFirst(NewSink(0, 0))
    \/ /\ op = "none"
       /\ \E es \in Fragmentations(error) : FmtErrorLast(NewSink(0, 0), es)

SpecRender == RenderInit /\ [][RenderNext]_vars

\* ErrorImpl::display into a Formatter f_
Display(f_) ==
    /\ error # <<>>
    /\ op = "none"
    /\ LET r == display(Whole(error), f_) IN
        /\ f' = r.f
        /\ ret' = IF r.ok THEN "Ok" ELSE "Err"
    /\ op' = "display"
    /\ shown' = Whole(error)
    /\ UNCHANGED <<error, backtrace, span_backtrace>>
    /\ UNCHANGED ivars

\* what the Debug of the wrapped error may write
DebugTexts == {<<"E">>, <<"E", SP, "{", NL, "a", NL, "}">>}

\* ErrorImpl::debug into a Formatter f_, the error's own Debug writing dbg;
\* shown is then what was asked of the error: dbg, or its entries' texts
Debug(f_, dbg) ==
    /\ error # <<>>
    /\ op = "none"
    /\ LET r == debug(Whole(error), backtrace, span_backtrace, dbg, f_) IN
        /\ f' = r.f
        /\ ret' = IF r.ok THEN "Ok" ELSE "Err"
    /\ op' = "debug"
    /\ shown' = IF f_.alternate THEN <<(<<dbg>>)>> ELSE Whole(error)
    /\ UNCHANGED <<error, backtrace, span_backtrace>>
    /\ UNCHANGED ivars

EntryNext ==
    \/ /\ op = "none"
       /\ \E alt \in BOOLEAN : Display(NewFormatter(alt))
    \/ /\ op = "none"
       /\ \E alt \in BOOLEAN : \E dbg \in DebugTexts : Debug(NewFormatter(alt), dbg)

SpecEntry == RenderInit /\ [][EntryNext]_vars

\* ---------------------------------------------- sinks that refuse a write
\* the number of writes an operation makes to a sink that accepts them all
WritesOfWriteStr(s) ==
    Len(write_str([Self EXCEPT !.inner = Armed(inner, 0, 0)], s).self.inner.log)
        - Len(inner.log)
WritesOfFirst ==
    Len(RootCauseFirst_fmt_error(Whole(error), backtrace, span_backtrace, NewSink(0, 0)).f.log)
WritesOfLast(es) ==
    Len(RootCauseLast_fmt_error(es, backtrace, span_backtrace, NewSink(0, 0)).f.log)

Keeps(k) == IF k = 0 THEN {0} ELSE 0..MaxKeep

FailBacktraces ==
    {[status |-> "Captured", text |-> StackBacktrace \o <<NL>>],
     [status |-> "Disabled", text |-> StackBacktrace \o <<NL>>]}

\* a fresh indenter, or an error not rendered yet
FailInit ==
    \/ /\ ind \in {None, Some(0), Some(12)}
       /\ inner = NewSink(0, 0)
       /\ started = FALSE
       /\ frags = <<>>
       /\ prev = [started |-> FALSE, len |-> 0]
       /\ res = "Ok"
       /\ NoError
    \/ /\ error \in UNION {ChainsOf(n, MaxFailText) : n \in 1..MaxFailChain}
       /\ backtrace \in FailBacktraces
       /\ span_backtrace \in SpanOptions
       /\ f = NewSink(0, 0)
       /\ op = "none"
       /\ shown = <<>>
       /\ ret = "Ok"
       /\ NoIndented

FailNext ==
    \/ /\ error = <<>> /\ Len(frags) < MaxFrags
       /\ \E s \in Strs(EntryChar, MaxFailTotal - TotalLen(frags)) :
            \E k \in 0..WritesOfWriteStr(s) : \E keep \in Keeps(k) :
                WriteStr(s, k, keep)
    \/ /\ error # <<>> /\ op = "none"
       /\ \E k \in 0..WritesOfFirst : \E keep \in Keeps(k) :
            FmtErrorFirst(NewSink(k, keep))
    \/ /\ error # <<>> /\ op = "none"
       /\ \E es \in Fragmentations(error) :
            \E k \in 0..WritesOfLast(es) : \E keep \in Keeps(k) :
                FmtErrorLast(NewSink(k, keep), es)

SpecFail == FailInit /\ [][FailNext]_vars

\* ------------------------------------------- vocabulary of the properties
Range(s) == {s[i] : i \in 1..Len(s)}
HasText(s) == \E i \in 1..Len(s) : ~IsWhitespace(s[i])
SingleLine(s) == NL \notin Range(s)

\* index of the first / last non-whitespace character of s (s has text)
FirstText(s) == CHOOSE p \in 1..Len(s) :
    ~IsWhitespace(s[p]) /\ \A k \in 1..(p - 1) : IsWhitespace(s[k])
LastText(s) == CHOOSE p \in 1..Len(s) :
    ~IsWhitespace(s[p]) /\ \A k \in (p + 1)..Len(s) : IsWhitespace(s[k])

\* s without its leading and trailing whitespace, by position
Trimmed(s) == IF HasText(s) THEN SubSeq(s, FirstText(s), LastText(s)) ELSE <<>>

\* index of the first newline of s at or after position p, Len(s) + 1 if none
NewlineFrom(s, p) ==
    IF \E q \in p..Len(s) : s[q] = NL
    THEN CHOOSE q \in p..Len(s) : s[q] = NL /\ \A k \in p..(q - 1) : s[k] # NL
    ELSE Len(s) + 1

\* value of a decimal numeral
RECURSIVE DecValue(_)
DecValue(d) ==
    IF d = <<>> THEN 0
    ELSE 10 * DecValue(SubSeq(d, 1, Len(d) - 1)) +
         (CHOOSE v \in 0..9 : DigitChar(v) = d[Len(d)])

DigitChars == {DigitChar(v) : v \in 0..9}

\* p is the numeral of n, without leading zeros, right-justified in width w
RightJustified(p, n, w) ==
    /\ Len(p) = w
    /\ \E k \in 0..(w - 1) :
        /\ \A i \in 1..k : p[i] = SP
        /\ \A i \in (k + 1)..w : p[i] \in DigitChars
        /\ (p[k + 1] # "0" \/ k + 1 = w)
        /\ DecValue(SubSeq(p, k + 1, w)) = n

\* s with every newline followed by w spaces, every other character as it is
RECURSIVE Expand(_, _)
Expand(s, w) ==
    IF s = <<>> THEN <<>>
    ELSE (IF Head(s) = NL THEN <<NL>> \o Spaces(w) ELSE <<Head(s)>>) \o Expand(Tail(s), w)

IsSuffix(x, y) == Len(x) <= Len(y) /\ SubSeq(y, Len(y) - Len(x) + 1, Len(y)) = x
IsPrefix(x, y) == Len(x) <= Len(y) /\ SubSeq(y, 1, Len(x)) = x

\* what the last write_str call added to the sink
LastDelta == OutOf(SubSeq(inner.log, prev.len + 1, Len(inner.log)))
LastFrag == frags[Len(frags)]

\* "a\nb", the two-line message of the tests
TwoLines == <<"a", NL, "b">>

\* -------------------------------------------------------------------- C1
\* C1: a fresh numbered indenter with label n < 100000 that receives one
\* write of a single-line message with some non-whitespace character leaves
\* in the sink exactly n right-justified in width 5, then ": ", then the
\* message without its leading and trailing whitespace; no newline and no
\* continuation indent is written.
C1_SingleLineNumbered ==
    (/\ Len(frags) = 1 /\ ind # None /\ ind[1] < 100000
     /\ SingleLine(frags[1]) /\ HasText(frags[1]))
    => LET o == Out(inner)
           m == Trimmed(frags[1])
       IN  /\ Len(o) = 7 + Len(m)
           /\ RightJustified(SubSeq(o, 1, 5), ind[1], 5)
           /\ SubSeq(o, 6, 7) = <<":", SP>>
           /\ SubSeq(o, 8, Len(o)) = m
           /\ NL \notin Range(o)
           /\ started /\ res = "Ok"

C1_Witness ==
    /\ ind = Some(12)
    /\ frags = <<(<<SP, "a", "b", SP>>)>>
    /\ Out(inner) = <<SP, SP, SP, "1", "2", ":", SP, "a", "b">>

\* -------------------------------------------------------------------- C2
\* C2: once a numbered indenter has started, every input line that follows
\* a newline of a written fragment is emitted as one newline, 7 spaces and
\* the line verbatim: a write to a started indenter adds the fragment with
\* 7 spaces inserted after each newline; the write that starts it ends with
\* the rest of the fragment after its first non-blank line, expanded the
\* same way.  "a\nb" with label 2 gives "    2: a\n       b", with label 12
\* "   12: a\n       b".
C2_ContinuationLines ==
    /\ (frags # <<>> /\ ind # None /\ prev.started)
        => LastDelta = Expand(LastFrag, 7)
    /\ (frags # <<>> /\ ind # None /\ ~prev.started /\ started)
        => LET m == LastFrag
               q == NewlineFrom(m, FirstText(m))
           IN  /\ IsSuffix(Expand(SubSeq(m, q, Len(m)), 7), LastDelta)
               /\ Len(LastDelta) = Len(LabelText(ind[1]))
                    + Len(Trimmed(SubSeq(m, 1, q - 1)))
                    + Len(Expand(SubSeq(m, q, Len(m)), 7))
    /\ (frags = <<TwoLines>> /\ ind = Some(2))
        => Out(inner) = Spaces(4) \o <<"2", ":", SP, "a", NL>> \o Spaces(7) \o <<"b">>
    /\ (frags = <<TwoLines>> /\ ind = Some(12))
        => Out(inner) = Spaces(3) \o <<"1", "2", ":", SP, "a", NL>> \o Spaces(7) \o <<"b">>

C2_Witness ==
    /\ ind = Some(12)
    /\ frags = <<(<<"a">>), (<<NL, SP, "b">>)>>
    /\ prev.started
    /\ Out(inner) = Spaces(3) \o <<"1", "2", ":", SP, "a", NL>> \o Spaces(7) \o <<SP, "b">>

\* -------------------------------------------------------------------- C3
\* C3 as stated: with an absent label every two-line message "A\nB" yields
\* "    A\n    B", whatever A is.
C3_AnyTwoLines ==
    (/\ Len(frags) = 1 /\ ind = None
     /\ \E q \in 1..Len(frags[1]) :
            frags[1][q] = NL /\ \A k \in 1..Len(frags[1]) : k # q => frags[1][k] # NL)
    => LET m == frags[1]
           q == NewlineFrom(m, 1)
       IN  Out(inner) = Spaces(4) \o SubSeq(m, 1, q - 1) \o <<NL>> \o Spaces(4)
                            \o SubSeq(m, q + 1, Len(m))

\* C3 amended: a fresh indenter with an absent label that receives one write
\* with some text leaves in the sink 4 spaces, the first non-blank line
\* without its leading and trailing whitespace, and then the rest of the
\* message with 4 spaces inserted after each newline; so "A\nB" yields
\* "    A\n    B" when A is non-blank and has no leading or trailing
\* whitespace.
C3_PlainIndent ==
    /\ (Len(frags) = 1 /\ ind = None /\ HasText(frags[1]))
        => LET m == frags[1]
               q == NewlineFrom(m, FirstText(m))
           IN  Out(inner) = Spaces(4) \o Trimmed(SubSeq(m, 1, q - 1))
                                \o Expand(SubSeq(m, q, Len(m)), 4)
    /\ (Len(frags) = 1 /\ ind = None /\ ~HasText(frags[1])) => Out(inner) = <<>>
    /\ (frags = <<TwoLines>> /\ ind = None)
        => Out(inner) = Spaces(4) \o <<"a", NL>> \o Spaces(4) \o <<"b">>

C3_Witness ==
    /\ ind = None
    /\ frags = <<(<<SP, "a", NL, "b">>)>>
    /\ Out(inner) = Spaces(4) \o <<"a", NL>> \o Spaces(4) \o <<"b">>

\* ------------------------------------------------------------------- C10
\* what a fresh indenter with the label of this one holds after one write of s
FreshOut(s) == Out(write_str(Indented(NewSink(0, 0), ind), s).self.inner)

\* C10: a fresh indenter skips the leading blank lines of a message: they
\* write nothing and leave started false, so that the sink is empty as long
\* as started is false and only blank fragments leave it so; a message
\* gives the output of the same message without its leading blank lines and
\* the leading whitespace of its first non-blank line; and after a blank
\* first fragment a second fragment is labelled as if it were the first.
C10_LeadingBlankLines ==
    /\ ~started => inner.log = <<>>
    /\ started <=> \E i \in 1..Len(frags) : HasText(frags[i])
    /\ (Len(frags) = 1 /\ HasText(frags[1]))
        => LET m == frags[1]
           IN  /\ Out(inner) = FreshOut(SubSeq(m, FirstText(m), Len(m)))
               /\ inner.log[1].s = (IF ind = None THEN PlainIndent ELSE LabelText(ind[1]))
    /\ (Len(frags) = 2 /\ ~HasText(frags[1]) /\ HasText(frags[2]))
        => /\ Out(inner) = FreshOut(frags[2])
           /\ inner.log[1].s = (IF ind = None THEN PlainIndent ELSE LabelText(ind[1]))

C10_Witness ==
    /\ ind = Some(2)
    /\ frags = <<(<<SP, NL>>), (<<SP, "a">>)>>
    /\ Out(inner) = LabelText(2) \o <<"a">>

\* ------------------------------------------------- expected chain layout
\* the block of one entry with label n and message m written in one piece:
\* nothing if m is blank, else the label, the first non-blank line without
\* its surrounding whitespace, and the rest with 7 spaces after each newline
Block(n, m) ==
    IF ~HasText(m) THEN <<>>
    ELSE LET q == NewlineFrom(m, FirstText(m))
         IN  LabelText(n) \o Trimmed(SubSeq(m, 1, q - 1)) \o Expand(SubSeq(m, q, Len(m)), 7)

\* what a fresh numbered indenter over an empty sink holds after fragments fs
Through(n, fs) == Out(WriteFrags(numbered(NewSink(0, 0), n), fs, 1).self.inner)

\* root cause first: a newline then the block of the trimmed message, for
\* the entries in reversed order, labelled by position in that order
FirstRendering(chain) ==
    LET k == Len(chain)
    IN  Concat([i \in 1..k |-> <<NL>> \o Block(i - 1, Trimmed(chain[k + 1 - i]))])

\* root cause last: a newline, then per entry in natural order what the
\* indenter labelled with its position makes of it, and a newline
LastRendering(es) ==
    <<NL>> \o Concat([i \in 1..Len(es) |-> Through(i - 1, es[i]) \o <<NL>>])

ExpectedEntries == IF op = "First" THEN FirstRendering(error) ELSE LastRendering(shown)

ExpectedContext ==
    IF span_backtrace # None
    THEN <<NL, NL>> \o <<"C", "o", "n", "t", "e", "x", "t", ":">> \o <<NL>> \o span_backtrace[1]
    ELSE <<>>

\* the backtrace text without trailing whitespace and, if it begins with
\* "stack backtrace:", with "Stack B" in place of its first 7 characters
ExpectedBacktrace ==
    LET x == backtrace.text
        tr == IF HasText(x) THEN SubSeq(x, 1, LastText(x)) ELSE <<>>
    IN  IF Len(tr) >= 16 /\ SubSeq(tr, 1, 16) = StackBacktrace
        THEN [i \in 1..Len(tr) |-> IF i <= 7 THEN StackB[i] ELSE tr[i]]
        ELSE tr

NoSections == span_backtrace = None /\ backtrace.status # "Captured"
Rendered == op # "none" /\ ret = "Ok"
EndsInNewline(o) == o # <<>> /\ o[Len(o)] = NL

\* -------------------------------------------------------------------- C4
\* C4 as stated: RootCauseFirst emits the entries in reversed order, each
\* after one newline, labelled by position, its message trimmed, and with
\* no optional section the output does not end in a newline.
C4_NeverEndsInNewline ==
    (op = "First" /\ ret = "Ok")
    => /\ IsPrefix(FirstRendering(error), Out(f))
       /\ NoSections => (Out(f) = FirstRendering(error) /\ ~EndsInNewline(Out(f)))

\* C4 amended: RootCauseFirst emits, for the entries in reversed order, one
\* newline and then the block of the trimmed message labelled with the
\* entry's position in that order (root cause 0, outermost k-1); an entry
\* with a blank message writes nothing after its newline; no newline is
\* written after a block, so with no optional section the output ends in a
\* newline exactly when the outermost entry's message is blank.
C4_RootCauseFirst ==
    (op = "First" /\ ret = "Ok")
    => /\ IsPrefix(FirstRendering(error), Out(f))
       /\ NoSections =>
            /\ Out(f) = FirstRendering(error)
            /\ EndsInNewline(Out(f)) <=> ~HasText(error[1])

C4_Witness ==
    /\ op = "First" /\ ret = "Ok" /\ NoSections
    /\ error = <<(<<"a", "a">>), (<<"a">>)>>
    /\ Out(f) = <<NL>> \o LabelText(0) \o <<"a", NL>> \o LabelText(1) \o <<"a", "a">>

\* -------------------------------------------------------------------- C5
\* C5: RootCauseLast writes one newline, then for the entries in natural
\* order, labelled 0..k-1, what a fresh numbered indenter makes of the
\* entry's untrimmed message, each followed by one newline, the last too.
C5_RootCauseLast ==
    (op = "Last" /\ ret = "Ok")
    => /\ IsPrefix(LastRendering(shown), Out(f))
       /\ NoSections => (Out(f) = LastRendering(shown) /\ EndsInNewline(Out(f)))
       /\ Out(f)[1] = NL
       /\ \A i \in 1..Len(shown) :
            /\ to_string(shown[i]) = error[i]
            /\ Len(shown[i]) = 1 => Through(i - 1, shown[i]) = Block(i - 1, error[i])

C5_Witness ==
    /\ op = "Last" /\ ret = "Ok" /\ NoSections
    /\ error = <<(<<"a">>), (<<"a", NL>>)>>
    /\ shown = Whole(error)
    /\ Out(f) = <<NL>> \o LabelText(0) \o <<"a", NL>>
                  \o LabelText(1) \o <<"a", NL>> \o Spaces(7) \o <<NL>>

\* -------------------------------------------------------------------- C6
\* C6: in both orderings the entries are followed, if the context section
\* is present, by exactly "\n\nContext:\n" and the context's text verbatim,
\* and by nothing for it if it is absent; the stack trace separator, if
\* any, comes next.
C6_ContextSection ==
    Rendered
    => LET ec == ExpectedEntries \o ExpectedContext
           o == Out(f)
       IN  /\ IsPrefix(ec, o)
           /\ backtrace.status # "Captured" => o = ec
           /\ backtrace.status = "Captured"
                => (Len(o) >= Len(ec) + 2 /\ SubSeq(o, Len(ec) + 1, Len(ec) + 2) = <<NL, NL>>)

C6_Witness ==
    /\ Rendered /\ op = "Last"
    /\ span_backtrace = Some(<<SP, "a", NL>>)
    /\ backtrace.status = "Disabled"
    /\ error = <<(<<"a">>)>>
    /\ Out(f) = <<NL>> \o LabelText(0) \o <<"a", NL>> \o ExpectedContext

\* -------------------------------------------------------------------- C7
\* C7: in both orderings the stack trace is written exactly when its status
\* is captured: then the output ends with "\n\n" and the text without its
\* trailing whitespace, "Stack B" in place of its first 7 characters if it
\* begins with "stack backtrace:", and is that much longer than the entries
\* and the context; with any other status nothing is written for it.
C7_BacktraceSection ==
    Rendered
    => LET ec == ExpectedEntries \o ExpectedContext
           o == Out(f)
           b == <<NL, NL>> \o ExpectedBacktrace
       IN  IF backtrace.status = "Captured"
           THEN IsSuffix(b, o) /\ Len(o) = Len(ec) + Len(b)
           ELSE Len(o) = Len(ec)

C7_Witness ==
    /\ Rendered /\ op = "First"
    /\ backtrace = [status |-> "Captured", text |-> StackBacktrace \o <<NL, SP, "a", SP, NL>>]
    /\ span_backtrace = None
    /\ error = <<(<<"a">>)>>
    /\ Out(f) = <<NL>> \o LabelText(0) \o <<"a", NL, NL>> \o StackB
                  \o SubSeq(StackBacktrace, 8, 16) \o <<NL, SP, "a">>

\* -------------------------------------------------------------------- C8
\* the last line of o, a final newline being its terminator, is blank
TrailingBlankLine(o) ==
    /\ o # <<>>
    /\ LET body == IF EndsInNewline(o) THEN SubSeq(o, 1, Len(o) - 1) ELSE o
           ls == Split(body)
       IN  ~HasText(ls[Len(ls)])

\* the message of the entry rendered last, as it is given to the indenter
LastRenderedMessage == IF op = "First" THEN Trimmed(error[1]) ELSE error[Len(error)]
TextOnLastLine(m) == LET ls == Split(m) IN HasText(ls[Len(ls)])

FailsFast(seg, all, result) ==
    /\ result = "Err" <=> \E i \in 1..Len(seg) : ~seg[i].ok
    /\ result = "Err" =>
        /\ ~seg[Len(seg)].ok
        /\ \A i \in 1..(Len(seg) - 1) : seg[i].ok
        /\ Len(seg) <= Len(all)
        /\ \A i \in 1..Len(seg) : seg[i].s = all[i].s
        /\ \A i \in 1..(Len(seg) - 1) : seg[i].acc = all[i].acc
        /\ IsPrefix(seg[Len(seg)].acc, seg[Len(seg)].s)
    /\ result = "Ok" => seg = all

\* C9: in write_str and in both renderers the first write the sink refuses
\* is the last write attempted: the operation returns the failure, writes
\* no later label, indent, line, entry or section, and what the sink had
\* accepted stays as it was.
C9_FailFast ==
    /\ frags # <<>> =>
        LET before == [log |-> SubSeq(inner.log, 1, prev.len), failAt |-> 0, keep |-> 0]
            clean == write_str([inner |-> before, ind |-> ind, started |-> prev.started],
                               LastFrag).self.inner.log
        IN  FailsFast(SubSeq(inner.log, prev.len + 1, Len(inner.log)),
                      SubSeq(clean, prev.len + 1, Len(clean)), res)
    /\ op = "First" =>
        FailsFast(f.log,
            RootCauseFirst_fmt_error(shown, backtrace, span_backtrace, NewSink(0, 0)).f.log,
            ret)
    /\ op = "Last" =>
        FailsFast(f.log,
            RootCauseLast_fmt_error(shown, backtrace, span_backtrace, NewSink(0, 0)).f.log,
            ret)

\* a render refused at the newline before its second entry
C9_Witness ==
    /\ op = "First" /\ ret = "Err"
    /\ error = <<(<<"a">>), (<<"a">>)>>
    /\ Len(f.log) = 4
    /\ Out(f) = <<NL>> \o LabelText(0) \o <<"a">>

\* ------------------------------------------------------------------- C11
\* C11: the output of the indenter does not depend on how the text is cut
\* into write_str calls: after any fragments written in order to a fresh
\* indenter the sink holds what one write of their concatenation gives.
C11_SplitIndependent ==
    frags # <<>> => Out(inner) = FreshOut(Concat(frags))

\* ------------------------------------------------------------------- C12
\* a written text that is a numeric label: a numeral right-justified in 5
\* and ": "; its value
IsLabelText(s) ==
    /\ Len(s) = 7
    /\ SubSeq(s, 6, 7) = <<":", SP>>
    /\ \E n \in 0..Len(error) : RightJustified(SubSeq(s, 1, 5), n, 5)
LabelValue(s) == CHOOSE n \in 0..Len(error) : RightJustified(SubSeq(s, 1, 5), n, 5)

\* the values of the labels written to a sink, in the order written
RECURSIVE LabelsIn(_)
LabelsIn(log) ==
    IF log = <<>> THEN <<>>
    ELSE LabelsIn(SubSeq(log, 1, Len(log) - 1)) \o
         (IF IsLabelText(log[Len(log)].s) THEN <<LabelValue(log[Len(log)].s)>> ELSE <<>>)

\* the entries in the order the last render went through them
Traversal == IF op = "First" THEN Reverse(error) ELSE error

\* the positions (from 0) of the entries of es whose message has text
RECURSIVE TextPositions(_, _)
TextPositions(es, k) ==
    IF k > Len(es) THEN <<>>
    ELSE (IF HasText(es[k]) THEN <<k - 1>> ELSE <<>>) \o TextPositions(es, k + 1)

\* C12 as stated: every render of a chain of k entries writes exactly k
\* numeric labels, 0, 1, ..., k-1 in this order, blank messages included.
C12_LabelPerEntry ==
    (op \in {"First", "Last"} /\ ret = "Ok")
    => LabelsIn(f.log) = [i \in 1..Len(error) |-> i - 1]

\* C12 amended: every render of a chain writes exactly one numeric label
\* for each entry whose message has text, its value the entry's position in
\* the traversal order, in increasing order; an entry with a blank message
\* gets no label, so the labels are 0, 1, ..., k-1 exactly when no message
\* of the chain is blank.
C12_LabelPerTextEntry ==
    (op \in {"First", "Last"} /\ ret = "Ok")
    => /\ LabelsIn(f.log) = TextPositions(Traversal, 1)
       /\ (LabelsIn(f.log) = [i \in 1..Len(error) |-> i - 1])
            <=> \A i \in 1..Len(error) : HasText(error[i])

C12_Witness ==
    /\ op = "Last" /\ ret = "Ok"
    /\ error = <<(<<SP>>), (<<"a", NL>>)>>
    /\ LabelsIn(f.log) = <<1>>

\* ------------------------------------------------------------------- C13
\* the texts of ss joined by sep
RECURSIVE Joined(_, _)
Joined(ss, sep) ==
    IF Len(ss) = 1 THEN ss[1]
    ELSE Joined(SubSeq(ss, 1, Len(ss) - 1), sep) \o sep \o ss[Len(ss)]

\* C13: display writes in normal mode exactly the text of entry 0, and in
\* alternate mode the texts of all entries in chain order joined by ": ";
\* nothing else, so no newline, label or indent of its own.
C13_Display ==
    (op = "display" /\ ret = "Ok")
    => /\ ~f.alternate => Out(f) = error[1]
       /\ f.alternate =>
            /\ Out(f) = Joined(error, <<":", SP>>)
            /\ Len(Out(f)) = TotalLen(error) + 2 * (Len(error) - 1)
            /\ IsPrefix(error[1], Out(f)) /\ IsSuffix(error[Len(error)], Out(f))

C13_Witness ==
    /\ op = "display" /\ ret = "Ok" /\ f.alternate
    /\ error = <<(<<"a", "a">>), (<<"a">>)>>
    /\ Out(f) = <<"a", "a", ":", SP, "a">>

\* ------------------------------------------------------------------- C14
\* C14: debug in alternate mode writes what the error's own Debug writes and
\* nothing else, in one piece; in normal mode it writes the RootCauseFirst
\* rendering of the chain followed by the container's context and stack
\* trace sections, which is never the RootCauseLast rendering.
C14_Debug ==
    (op = "debug" /\ ret = "Ok")
    => /\ f.alternate => (Out(f) = shown[1][1] /\ Len(f.log) = 1)
       /\ ~f.alternate =>
            /\ Out(f) = FirstRendering(error) \o ExpectedContext \o
                    (IF backtrace.status = "Captured"
                     THEN <<NL, NL>> \o ExpectedBacktrace ELSE <<>>)
            /\ Out(f) # Out(RootCauseLast_fmt_error(
                            Whole(error), backtrace, span_backtrace, NewSink(0, 0)).f)

C14_Witness ==
    /\ op = "debug" /\ ret = "Ok" /\ ~f.alternate
    /\ error = <<(<<"a", "a">>), (<<"a">>)>>
    /\ span_backtrace = None /\ backtrace.status = "Disabled"
    /\ Out(f) = <<NL>> \o LabelText(0) \o <<"a", NL>> \o LabelText(1) \o <<"a", "a">>

\* ------------------------------------------------------------------- C15
\* the writes a render makes for its sections: two for a context, one for
\* a captured stack trace
ContextWrites == IF span_backtrace # None THEN 2 ELSE 0
BacktraceWrites == IF backtrace.status = "Captured" THEN 1 ELSE 0
EntryWrites == Len(f.log) - ContextWrites - BacktraceWrites

\* C15: in a render of either ordering the writes reach the sink in a fixed
\* order: first the writes of the entries, which together are the entries'
\* layout; then, with a context, the header and the context text; then, with
\* a captured stack trace, the separator and its text. The context text
\* reaches the sink as it is, unlabelled and unindented, in one write.
C15_WriteOrder ==
    (op \in {"First", "Last"} /\ ret = "Ok")
    => /\ EntryWrites >= 1
       /\ OutOf(SubSeq(f.log, 1, EntryWrites)) = ExpectedEntries
       /\ span_backtrace # None =>
            /\ f.log[EntryWrites + 1].s =
                    <<NL, NL>> \o <<"C", "o", "n", "t", "e", "x", "t", ":">> \o <<NL>>
            /\ f.log[EntryWrites + 2].s = span_backtrace[1]
       /\ backtrace.status = "Captured" =>
            f.log[Len(f.log)].s = <<NL, NL>> \o ExpectedBacktrace
       /\ \A i \in 1..Len(f.log) : f.log[i].ok

C15_Witness ==
    /\ op = "Last" /\ ret = "Ok"
    /\ Len(error) = 2
    /\ span_backtrace # None /\ backtrace.status = "Captured"
    /\ f.log[Len(f.log) - 1].s = span_backtrace[1]
    /\ f.log[Len(f.log) - 1].s # Trim(span_backtrace[1])
    /\ EntryWrites >= 5

\* ------------------------------------------------------------------- C16
\* the positions of the sink's log where a newline alone was written
NewlineWrites == {i \in 1..Len(inner.log) : inner.log[i].s = <<NL>>}

\* the input from its first character of text on, all fragments together
InputAfterStart ==
    LET c == Concat(frags)
    IN  IF HasText(c) THEN SubSeq(c, FirstText(c), Len(c)) ELSE <<>>

NewlinesOf(s) == Cardinality({i \in 1..Len(s) : s[i] = NL})

\* C16: every newline the indenter writes is followed at once by the
\* continuation indent; there are as many such pairs as the input has
\* newline characters after its first character of text, however the input
\* is cut into fragments; and a fragment without a newline that arrives
\* after the start is written as it is, in one write, nothing before it.
C16_NewlineOnlyIndent ==
    /\ \A i \in NewlineWrites :
        /\ i < Len(inner.log)
        /\ inner.log[i + 1].s = (IF ind # None THEN NumberedIndent ELSE PlainIndent)
    /\ Cardinality(NewlineWrites) = NewlinesOf(InputAfterStart)
    /\ NewlinesOf(Out(inner)) = NewlinesOf(InputAfterStart)
    /\ (frags # <<>> /\ prev.started /\ SingleLine(LastFrag))
        => /\ Len(inner.log) = prev.len + 1
           /\ inner.log[Len(inner.log)].s = LastFrag

C16_Witness ==
    /\ frags = <<(<<"a", NL>>), (<<"b", SP>>)>>
    /\ ind = None
    /\ Out(inner) = PlainIndent \o <<"a", NL>> \o PlainIndent \o <<"b", SP>>
    /\ Cardinality(NewlineWrites) = 1

\* ------------------------------------------------------------------- C17
\* the first write of a started indenter: its label
WrittenLabel == inner.log[1].s

\* C17 as stated: the label of a numbered indenter is as wide as the
\* continuation indent, 7 characters, whatever its value.
C17_LabelWidthSeven ==
    (ind # None /\ started) => Len(WrittenLabel) = Len(NumberedIndent)

\* C17: the label of a numbered indenter ends in ": " after the whole
\* numeral of its value; below 100000 it is 7 characters wide, the width of
\* the continuation indent, and from 100000 on it is wider than the indent,
\* so that continuation lines begin to the left of the first line's text.
C17_LabelWidth ==
    (ind # None /\ started)
    => LET w == Len(WrittenLabel)
           numeral == SelectSeq(SubSeq(WrittenLabel, 1, w - 2), LAMBDA c : c # SP)
       IN  /\ w >= 7
           /\ SubSeq(WrittenLabel, w - 1, w) = <<":", SP>>
           /\ numeral # <<>> /\ Range(numeral) \subseteq DigitChars
           /\ DecValue(numeral) = ind[1]
           /\ ind[1] < 100000 => w = Len(NumberedIndent)
           /\ ind[1] >= 100000 => w > Len(NumberedIndent)

C17_Witness ==
    /\ ind = Some(100000) /\ started
    /\ frags = <<TwoLines>>
    /\ Len(WrittenLabel) = 8
    /\ Out(inner) = <<"1", "0", "0", "0", "0", "0", ":", SP, "a", NL>>
                        \o Spaces(7) \o <<"b">>

\* ------------------------------------------------------------------- C18
\* what one call of write_str does to the flag, the label and the sink:
\* started is never reset and ind never changes; a call that leaves started
\* false writes nothing; the call that sets it finds the sink empty, writes
\* the label first and the trimmed first line of text next, and then only a
\* newline, the indent and the line for each newline after that text; a
\* call on a started indenter writes the first line and the same three per
\* newline, so no label.
C18_Call ==
    LET s == frags'[Len(frags')]
        new == SubSeq(inner'.log, Len(inner.log) + 1, Len(inner'.log))
        label == IF ind # None THEN LabelText(ind[1]) ELSE PlainIndent
    IN  /\ started => started'
        /\ ind' = ind
        /\ SubSeq(inner'.log, 1, Len(inner.log)) = inner.log
        /\ ~started' => new = <<>>
        /\ (~started /\ started') =>
            /\ inner.log = <<>>
            /\ new[1].s = label
            /\ new[2].s = Trimmed(SubSeq(s, 1, NewlineFrom(s, FirstText(s)) - 1))
            /\ Len(new) = 2 + 3 * NewlinesOf(SubSeq(s, FirstText(s), Len(s)))
        /\ started => Len(new) = 1 + 3 * NewlinesOf(s)
        /\ (started /\ ind # None) => \A i \in 1..Len(new) : new[i].s # label

\* C18: over any sequence of write_str calls on one indenter, nothing is in
\* the sink while started is false, and every call is as C18_Call says:
\* started goes from false to true only, the label is written once, at
\* that transition and before any text, and ind stays what it was.
C18_StartedOnce ==
    /\ [](~started => inner.log = <<>>)
    /\ [](started => inner.log[1].s = (IF ind # None THEN LabelText(ind[1]) ELSE PlainIndent))
    /\ [][C18_Call]_vars

C18_Witness ==
    /\ frags = <<(<<SP, NL>>), (<<"a", NL>>)>>
    /\ ind = Some(2)
    /\ started /\ ~prev.started /\ prev.len = 0
    /\ Len(inner.log) = 5
    /\ inner.log[1].s = <<SP, SP, SP, SP, "2", ":", SP>>

====
